---- MODULE Spec2Model ----
(***************************************************************************)
(* The PyTorch notebook of assignment2: the ChunkSampler and the three     *)
(* data loaders, the layer stacks, the inline training cell, train(),      *)
(* check_accuracy() and the order of the notebook's cells.                 *)
(*                                                                         *)
(* Tensors are not modelled value by value.  A model's trainable           *)
(* parameters are one residue w in 0..ParamMod-1, a gradient is a residue  *)
(* that backward() ADDS to the stored gradient, and an optimizer step      *)
(* subtracts the stored gradient from w.  Images, labels and scores are    *)
(* fixed functions of the dataset index (DataLabel, ScoreOf).  The running *)
(* statistics of BatchNorm2d and the optimizer's own moment estimates are  *)
(* not modelled.                                                           *)
(*                                                                         *)
(* Spec        the notebook's cells, once each, top to bottom, full size   *)
(* SpecCalls   the training cell, train and check_accuracy in any order,   *)
(*             on small loaders                                            *)
(* SpecFail    the training cell and train in any order on small loaders,  *)
(*             the framework free to raise while a batch is processed      *)
(* SpecLoader  iterations over one ChunkSampler and a loader built on it   *)
(* SpecShapes  one input walked through a layer stack                      *)
(***************************************************************************)
EXTENDS Integers, Sequences, FiniteSets, TLC

VARIABLES
    cfg,        \* the notebook's globals: NUM_TRAIN, NUM_VAL, batch_size, print_every
    loaders,    \* loader_train, loader_val, loader_test
    models,     \* the nn.Sequential objects, by the name they were first bound to
    binding,    \* the names fixed_model and best_model: the object each refers to
    optimizer,  \* the global optimizer: its rule and the model whose parameters it holds
    rng,        \* the framework's random generators (cpu, cuda)
    cell,       \* the position in the notebook: the next cell to run
    todo,       \* the calls the running cell has still to make
    pc,         \* the position inside the running call
    call,       \* the running call's locals
    ops,        \* the framework calls made so far for the current batch
    out,        \* the lines the running call has printed
    hist,       \* the calls that ended, oldest first (fn "raised": by raising)
    sh,         \* a walk of one input through a layer stack
    ls          \* an iteration over one sampler or loader

\* ------------------------------------------------------------ constants
NUM_TRAIN == 49000
NUM_VAL == 1000
NUM_TEST == 10000
BATCH_SIZE == 64
PRINT_EVERY == 100
NumClasses == 10
ImageChannels == 3
ImageSize == 32
CheckBatch == 64

MANUAL_SEED == 12345

\* ---------------------------------------------------------------- bounds
MaxSamples == 3
MaxCalls == 2
MaxEpochs == 2
NumSeeds == 2
ParamMod == 5
MaxSmallBatch == 3
MaxNum == 4
MaxStart == 2
MaxBatch == 3
MaxIters == 2

Min(a, b) == IF a < b THEN a ELSE b

\* ------------------------------------------------------------ the layers
Layer(kind, cin, cout, k, s, p) ==
    [kind |-> kind, cin |-> cin, cout |-> cout, k |-> k, s |-> s, p |-> p]
Conv2d(cin, cout, k, s, p) == Layer("Conv2d", cin, cout, k, s, p)
ReLU == Layer("ReLU", 0, 0, 0, 0, 0)
BatchNorm2d(nf) == Layer("BatchNorm2d", nf, nf, 0, 0, 0)
MaxPool2d(k, s) == Layer("MaxPool2d", 0, 0, k, s, 0)
Flatten == Layer("Flatten", 0, 0, 0, 0, 0)
Linear(cin, cout) == Layer("Linear", cin, cout, 0, 0, 0)

simple_model_layers ==
    << Conv2d(3, 32, 7, 2, 0),
       ReLU,
       Flatten,
       Linear(5408, 10) >>

fixed_model_base_layers_k5 ==
    << Conv2d(3, 32, 5, 1, 0),
       ReLU,
       BatchNorm2d(32),
       MaxPool2d(2, 2),
       Flatten,
       Linear(5408, 1024),
       ReLU,
       Linear(1024, 10) >>

fixed_model_base_layers ==
    << Conv2d(3, 32, 7, 1, 0),
       ReLU,
       BatchNorm2d(32),
       MaxPool2d(2, 2),
       Flatten,
       Linear(5408, 1024),
       ReLU,
       Linear(1024, 10) >>

model_layers ==
    << Conv2d(3, 32, 3, 1, 1),
       ReLU,
       BatchNorm2d(32),
       MaxPool2d(2, 2),
       Conv2d(32, 64, 3, 1, 1),
       ReLU,
       BatchNorm2d(64),
       MaxPool2d(2, 2),
       Conv2d(64, 128, 3, 1, 1),
       ReLU,
       BatchNorm2d(128),
       Flatten,
       Linear(8192, 1024),
       ReLU,
       Linear(1024, 10) >>

Archs == {"simple_model", "fixed_model_base", "model"}

LayersOf(arch) ==
    CASE arch = "simple_model" -> simple_model_layers
      [] arch = "fixed_model_base" -> fixed_model_base_layers
      [] OTHER -> model_layers

\* The integer size formula of a convolution or pooling window along one axis.
WindowOut(size, k, s, p) == ((size + 2 * p - k) \div s) + 1

\* Whether layer L accepts an input of shape x (<<N, C, H, W>> or <<N, F>>).
Accepts(L, x) ==
    CASE L.kind = "Conv2d" ->
            /\ Len(x) = 4
            /\ x[2] = L.cin
            /\ x[3] + 2 * L.p >= L.k
            /\ x[4] + 2 * L.p >= L.k
      [] L.kind = "BatchNorm2d" -> Len(x) = 4 /\ x[2] = L.cin
      [] L.kind = "MaxPool2d" -> Len(x) = 4 /\ x[3] >= L.k /\ x[4] >= L.k
      [] L.kind = "Flatten" -> Len(x) = 4
      [] L.kind = "Linear" -> Len(x) >= 1 /\ x[Len(x)] = L.cin
      [] OTHER -> Len(x) >= 1

FlattenForward_all(x) == << x[1] * x[2] * x[3] * x[4] >>

\* Flatten.forward: N, C, H, W = x.size(); x.view(N, -1).
FlattenForward(x) == << x[1], x[2] * x[3] * x[4] >>

\* The shape a layer returns; <<>> when the framework raises.
LayerForward(L, x) ==
    IF ~Accepts(L, x) THEN << >>
    ELSE CASE L.kind = "Conv2d" ->
                 << x[1], L.cout, WindowOut(x[3], L.k, L.s, L.p),
                    WindowOut(x[4], L.k, L.s, L.p) >>
           [] L.kind = "MaxPool2d" ->
                 << x[1], x[2], WindowOut(x[3], L.k, L.s, 0),
                    WindowOut(x[4], L.k, L.s, 0) >>
           [] L.kind = "Flatten" -> FlattenForward(x)
           [] L.kind = "Linear" -> [x EXCEPT ![Len(x)] = L.cout]
           [] OTHER -> x

\* nn.Sequential: each layer applied to the output of the one before.
RECURSIVE SequentialForward(_, _, _)
SequentialForward(layers, i, x) ==
    IF i > Len(layers) \/ x = << >> THEN x
    ELSE SequentialForward(layers, i + 1, LayerForward(layers[i], x))

ImageBatch(n) == << n, ImageChannels, ImageSize, ImageSize >>

\* ------------------------------------------------- sampler and DataLoader
ChunkSampler(num_samples, start) ==
    [num_samples |-> num_samples, start |-> start]

SamplerIter_nostart(s) == [next |-> s.start, stop |-> s.num_samples]

\* ChunkSampler.__iter__: iter(range(start, start + num_samples)).
SamplerIter(s) == [next |-> s.start, stop |-> s.start + s.num_samples]

\* ChunkSampler.__len__.
SamplerLen(s) == s.num_samples

\* The range iterator: whether it is exhausted, how many values it still
\* holds, the k-th value it will yield, and the iterator after k calls of next().
IterDone(it) == it.next >= it.stop
IterLeft(it) == IF it.stop > it.next THEN it.stop - it.next ELSE 0
IterNth(it, k) == it.next + k - 1
IterSkip(it, k) == [it EXCEPT !.next = it.next + Min(k, IterLeft(it))]

TakeBatch_rev(it, n) ==
    [k \in 1 .. Min(n, IterLeft(it)) |-> IterNth(it, Min(n, IterLeft(it)) + 1 - k)]

\* One batch of the DataLoader: the next batch_size indices of the sampler's
\* iterator, fewer when it runs out (drop_last is off).
TakeBatch(it, n) == [k \in 1 .. Min(n, IterLeft(it)) |-> IterNth(it, k)]

DataLoader(dataset, batch_size, sampler) ==
    [dataset |-> dataset, batch_size |-> batch_size, sampler |-> sampler]

\* ------------------------------------------------------------- the data
\* CIFAR-10 and the network's arithmetic are not part of the notebook: the
\* label of an image and the class the network scores highest for it are fixed
\* functions of the split, the index and the parameters.  The scores of one
\* image are pairwise distinct, so max(1) has one answer.
DataLabel(train, i) == (i * 3 + (IF train THEN 0 ELSE 1)) % NumClasses

ModelPick(w, train, i) == (DataLabel(train, i) + ((w + i) % 3)) % NumClasses

ScoreOf(w, train, i, c) ==
    NumClasses - ((c + NumClasses - ModelPick(w, train, i)) % NumClasses)

ScoreRow(w, train, i) == [c \in 1 .. NumClasses |-> ScoreOf(w, train, i, c - 1)]

\* scores.max(1): the class (0-based) of the largest score of a row.
ArgMax(row) ==
    (CHOOSE c \in 1 .. Len(row) : \A d \in 1 .. Len(row) : row[d] <= row[c]) - 1

RECURSIVE SumTo(_, _)
SumTo(q, n) == IF n = 0 THEN 0 ELSE q[n] + SumTo(q, n - 1)
SumSeq(q) == SumTo(q, Len(q))

\* ------------------------------------------------------------ the models
HasResetParameters(L) == L.kind \in {"Conv2d", "BatchNorm2d", "Linear"}

InitParams(g) == g % ParamMod
RngNext(g) == (2 * g + 1) % ParamMod

NoModel ==
    [exists |-> FALSE, arch |-> "none", w |-> 0, grad |-> 0, training |-> FALSE,
     inits |-> 0, steps |-> 0, stepsAtInit |-> 0]

\* nn.Sequential(...): the layers' parameters are drawn from the generator;
\* a new module is in training mode.
NewModel(arch, g) ==
    [exists |-> TRUE, arch |-> arch, w |-> InitParams(g), grad |-> 0,
     training |-> TRUE, inits |-> 1, steps |-> 0, stepsAtInit |-> 0]

ApplyReset_noop(m, g) == m

\* reset(m) on every module of the model: reset_parameters() where it exists.
ApplyReset(m, g) ==
    IF \E j \in 1 .. Len(LayersOf(m.arch)) : HasResetParameters(LayersOf(m.arch)[j])
    THEN [m EXCEPT !.w = InitParams(g), !.inits = m.inits + 1,
                   !.stepsAtInit = m.steps]
    ELSE m

ModelTrain_reinit(m) ==
    [m EXCEPT !.training = TRUE, !.w = 0, !.inits = m.inits + 1,
              !.stepsAtInit = m.steps]
ModelEval_noop(m) == m

\* model.train() and model.eval()
ModelTrain(m) == [m EXCEPT !.training = TRUE]
ModelEval(m) == [m EXCEPT !.training = FALSE]

\* model(x_var): the scores of a batch, one row of NumClasses per image, or
\* << >> when a layer refuses its input.
ModelForward(m, train, batch) ==
    IF SequentialForward(LayersOf(m.arch), 1, ImageBatch(Len(batch)))
          # << Len(batch), NumClasses >>
    THEN << >>
    ELSE [k \in 1 .. Len(batch) |-> ScoreRow(m.w, train, batch[k])]

\* loss_fn(scores, y_var)
CrossEntropy(scores, y) ==
    SumSeq([k \in 1 .. Len(scores) |->
               scores[k][ArgMax(scores[k]) + 1] - scores[k][y[k] + 1]])

\* The gradient loss.backward() computes for the parameters w.
GradOf(loss, w) == (loss + w + 1) % ParamMod

ZeroGradOf_keep(m) == m

\* optimizer.zero_grad()
ZeroGradOf(m) == [m EXCEPT !.grad = 0]

\* loss.backward(): the gradient is added to the stored one.
BackwardOf(m, loss) == [m EXCEPT !.grad = (m.grad + GradOf(loss, m.w)) % ParamMod]

\* optimizer.step()
StepOf(m) ==
    [m EXCEPT !.w = (m.w + ParamMod - m.grad) % ParamMod, !.steps = m.steps + 1]

\* '%.2f' % (100 * acc), in hundredths of a percent.
Percent(num_correct, num_samples) ==
    LET n == 10000 * num_correct
        q == n \div num_samples
        r == n % num_samples
    IN  IF 2 * r > num_samples \/ (2 * r = num_samples /\ q % 2 = 1)
        THEN q + 1 ELSE q

\* ------------------------------------------------------------ the loaders
Dataset(name, train, len) == [name |-> name, train |-> train, len |-> len]

\* DataLoader without a sampler: a sequential one over the whole dataset.
SequentialSampler(dataset) == ChunkSampler(dataset.len, 0)

MakeLoaders(c) ==
    [loader_train |->
        DataLoader(Dataset("cifar10_train", TRUE, c.NUM_TRAIN + c.NUM_VAL),
                   c.batch_size, ChunkSampler(c.NUM_TRAIN, 0)),
     loader_val |->
        DataLoader(Dataset("cifar10_val", TRUE, c.NUM_TRAIN + c.NUM_VAL),
                   c.batch_size, ChunkSampler(c.NUM_VAL, c.NUM_TRAIN)),
     loader_test |->
        DataLoader(Dataset("cifar10_test", FALSE, c.NUM_TEST),
                   c.batch_size,
                   SequentialSampler(Dataset("cifar10_test", FALSE, c.NUM_TEST)))]

LoaderIter(loader) == SamplerIter(loader.sampler)

\* ------------------------------------------------------------- the calls
ModelNames == {"simple_model", "fixed_model_base", "fixed_model_gpu", "model"}

Statement(fn, model, loader, num_epochs) ==
    [fn |-> fn, model |-> model, loader |-> loader, num_epochs |-> num_epochs]

NoCall ==
    [fn |-> "none", model |-> "none", loader |-> "none", num_epochs |-> 0,
     epoch |-> 0, t |-> -1, it |-> [next |-> 0, stop |-> 0], batch |-> << >>,
     y |-> << >>, scores |-> << >>, mode |-> "none", loss |-> 0,
     num_correct |-> 0, num_samples |-> 0, steps |-> 0, w0 |-> 0, wEpoch |-> 0]

Frame(st) ==
    [NoCall EXCEPT !.fn = st.fn, !.model = st.model, !.loader = st.loader,
                   !.num_epochs = st.num_epochs, !.w0 = models[st.model].w,
                   !.wEpoch = models[st.model].w]

Returned ==
    [fn |-> call.fn, model |-> call.model, loader |-> call.loader,
     epochs |-> call.epoch, steps |-> call.steps, w0 |-> call.w0,
     w1 |-> models[call.model].w, num_correct |-> call.num_correct,
     num_samples |-> call.num_samples]

shapeVars == << sh, ls >>
globalVars == << cfg, loaders, binding, rng, cell >>

\* The inline training cell: fixed_model_gpu.train(), then one pass over
\* loader_train.
StartInline ==
    /\ pc = "idle" /\ todo # << >> /\ Head(todo).fn = "cell_train"
    /\ models' = [models EXCEPT ![Head(todo).model] = ModelTrain(@)]
    /\ call' = [Frame(Head(todo)) EXCEPT !.it = LoaderIter(loaders.loader_train)]
    /\ todo' = Tail(todo)
    /\ pc' = "fetch"
    /\ out' = << >>
    /\ ops' = << >>
    /\ UNCHANGED << globalVars, optimizer, hist, shapeVars >>

\* train(model, loss_fn, optimizer, num_epochs) is entered.
StartTrain ==
    /\ pc = "idle" /\ todo # << >> /\ Head(todo).fn = "train"
    /\ call' = Frame(Head(todo))
    /\ todo' = Tail(todo)
    /\ pc' = "epoch"
    /\ out' = << >>
    /\ ops' = << >>
    /\ UNCHANGED << globalVars, models, optimizer, hist, shapeVars >>

\* for epoch in range(num_epochs): print, model.train(), iter(loader_train).
EpochStart ==
    /\ pc = "epoch"
    /\ IF call.epoch < call.num_epochs
       THEN /\ out' = Append(out, << "epoch", call.epoch + 1, call.num_epochs >>)
            /\ models' = [models EXCEPT ![call.model] = ModelTrain(@)]
            /\ call' = [call EXCEPT !.it = LoaderIter(loaders.loader_train),
                                    !.t = -1]
            /\ pc' = "fetch"
            /\ UNCHANGED hist
       ELSE /\ hist' = Append(hist, Returned)
            /\ pc' = "idle"
            /\ UNCHANGED << out, models, call >>
    /\ ops' = << >>
    /\ UNCHANGED << globalVars, optimizer, todo, shapeVars >>

\* The for statement asks the loader for its next batch.
FetchBatch ==
    /\ pc = "fetch"
    /\ IF IterDone(call.it)
       THEN /\ IF call.fn = "train"
               THEN /\ call' = [call EXCEPT !.epoch = call.epoch + 1,
                                            !.wEpoch = models[call.model].w]
                    /\ pc' = "epoch"
                    /\ UNCHANGED hist
               ELSE IF call.fn = "cell_train"
               THEN /\ call' = [call EXCEPT !.epoch = call.epoch + 1]
                    /\ hist' = Append(hist, [Returned EXCEPT !.epochs = 1])
                    /\ pc' = "idle"
               ELSE /\ pc' = "report"
                    /\ UNCHANGED << call, hist >>
            /\ UNCHANGED ops
       ELSE LET ld == loaders[call.loader]
                b == TakeBatch(call.it, ld.batch_size)
            IN  /\ call' = [call EXCEPT
                     !.batch = b,
                     !.y = [k \in 1 .. Len(b) |-> DataLabel(ld.dataset.train, b[k])],
                     !.it = IterSkip(call.it, ld.batch_size),
                     !.t = IF call.fn = "check_accuracy" THEN call.t ELSE call.t + 1]
                /\ pc' = "forward"
                /\ ops' = << >>
                /\ UNCHANGED hist
    /\ UNCHANGED << globalVars, models, optimizer, todo, out, shapeVars >>

\* scores = model(x_var)
Forward ==
    /\ pc = "forward"
    /\ LET m == models[call.model]
           sc == ModelForward(m, loaders[call.loader].dataset.train, call.batch)
       IN  /\ call' = [call EXCEPT !.scores = sc,
                          !.mode = IF m.training THEN "train" ELSE "eval"]
           /\ pc' = IF sc = << >> THEN "raised"
                    ELSE IF call.fn = "check_accuracy" THEN "count" ELSE "loss"
    /\ ops' = Append(ops, "forward")
    /\ UNCHANGED << globalVars, models, optimizer, todo, out, hist, shapeVars >>

LossStep_t ==
    /\ pc = "loss"
    /\ LET loss == CrossEntropy(call.scores, call.y) IN
       /\ call' = [call EXCEPT !.loss = loss]
       /\ out' = IF call.t % cfg.print_every = 0
                 THEN Append(out, << "t", call.t + 1, loss >>)
                 ELSE out
    /\ pc' = "zero_grad"
    /\ ops' = Append(ops, "loss")
    /\ UNCHANGED << globalVars, models, optimizer, todo, hist, shapeVars >>

\* loss = loss_fn(scores, y_var), and the progress line when it is due.
LossStep ==
    /\ pc = "loss"
    /\ LET loss == CrossEntropy(call.scores, call.y) IN
       /\ call' = [call EXCEPT !.loss = loss]
       /\ out' = IF (call.t + 1) % cfg.print_every = 0
                 THEN Append(out, << "t", call.t + 1, loss >>)
                 ELSE out
    /\ pc' = "zero_grad"
    /\ ops' = Append(ops, "loss")
    /\ UNCHANGED << globalVars, models, optimizer, todo, hist, shapeVars >>

\* optimizer.zero_grad()
ZeroGrad ==
    /\ pc = "zero_grad"
    /\ models' = [models EXCEPT ![optimizer.target] = ZeroGradOf(@)]
    /\ pc' = "backward"
    /\ ops' = Append(ops, "zero_grad")
    /\ UNCHANGED << globalVars, optimizer, todo, call, out, hist, shapeVars >>

\* loss.backward()
Backward ==
    /\ pc = "backward"
    /\ models' = [models EXCEPT ![call.model] = BackwardOf(@, call.loss)]
    /\ pc' = "step"
    /\ ops' = Append(ops, "backward")
    /\ UNCHANGED << globalVars, optimizer, todo, call, out, hist, shapeVars >>

\* optimizer.step()
OptStep ==
    /\ pc = "step"
    /\ models' = [models EXCEPT ![optimizer.target] = StepOf(@)]
    /\ call' = [call EXCEPT !.steps = call.steps + 1]
    /\ pc' = "fetch"
    /\ ops' = Append(ops, "step")
    /\ UNCHANGED << globalVars, optimizer, todo, out, hist, shapeVars >>

StartCheck_by_sampler ==
    /\ pc = "idle" /\ todo # << >> /\ Head(todo).fn = "check_accuracy"
    /\ out' = << << "checking",
                    IF loaders[Head(todo).loader].sampler.start > 0
                    THEN "validation" ELSE "test" >> >>
    /\ models' = [models EXCEPT ![Head(todo).model] = ModelEval(@)]
    /\ call' = [Frame(Head(todo)) EXCEPT
                   !.num_correct = 0, !.num_samples = 0,
                   !.it = LoaderIter(loaders[Head(todo).loader])]
    /\ todo' = Tail(todo)
    /\ pc' = "fetch"
    /\ ops' = << >>
    /\ UNCHANGED << globalVars, optimizer, hist, shapeVars >>

StartCheck_carry ==
    /\ pc = "idle" /\ todo # << >> /\ Head(todo).fn = "check_accuracy"
    /\ out' = << << "checking",
                    IF loaders[Head(todo).loader].dataset.train
                    THEN "validation" ELSE "test" >> >>
    /\ models' = [models EXCEPT ![Head(todo).model] = ModelEval(@)]
    /\ call' = [Frame(Head(todo)) EXCEPT
                   !.num_correct = call.num_correct,
                   !.num_samples = call.num_samples,
                   !.it = LoaderIter(loaders[Head(todo).loader])]
    /\ todo' = Tail(todo)
    /\ pc' = "fetch"
    /\ ops' = << >>
    /\ UNCHANGED << globalVars, optimizer, hist, shapeVars >>

\* check_accuracy(model, loader) up to its loop.
StartCheck ==
    /\ pc = "idle" /\ todo # << >> /\ Head(todo).fn = "check_accuracy"
    /\ out' = << << "checking",
                    IF loaders[Head(todo).loader].dataset.train
                    THEN "validation" ELSE "test" >> >>
    /\ models' = [models EXCEPT ![Head(todo).model] = ModelEval(@)]
    /\ call' = [Frame(Head(todo)) EXCEPT
                   !.num_correct = 0, !.num_samples = 0,
                   !.it = LoaderIter(loaders[Head(todo).loader])]
    /\ todo' = Tail(todo)
    /\ pc' = "fetch"
    /\ ops' = << >>
    /\ UNCHANGED << globalVars, optimizer, hist, shapeVars >>

CountBatch_batch_size ==
    /\ pc = "count"
    /\ LET preds == [k \in 1 .. Len(call.scores) |-> ArgMax(call.scores[k])] IN
       call' = [call EXCEPT
                  !.num_correct = call.num_correct
                      + Cardinality({k \in 1 .. Len(preds) : preds[k] = call.y[k]}),
                  !.num_samples = call.num_samples + loaders[call.loader].batch_size]
    /\ pc' = "fetch"
    /\ UNCHANGED << globalVars, models, optimizer, todo, ops, out, hist, shapeVars >>

\* _, preds = scores.max(1); num_correct += (preds == y).sum();
\* num_samples += preds.size(0)
CountBatch ==
    /\ pc = "count"
    /\ LET preds == [k \in 1 .. Len(call.scores) |-> ArgMax(call.scores[k])] IN
       call' = [call EXCEPT
                  !.num_correct = call.num_correct
                      + Cardinality({k \in 1 .. Len(preds) : preds[k] = call.y[k]}),
                  !.num_samples = call.num_samples + Len(preds)]
    /\ pc' = "fetch"
    /\ UNCHANGED << globalVars, models, optimizer, todo, ops, out, hist, shapeVars >>

\* acc = float(num_correct) / num_samples, and the 'Got ... correct' line.
Report ==
    /\ pc = "report"
    /\ IF call.num_samples = 0
       THEN /\ pc' = "raised"
            /\ UNCHANGED << out, hist >>
       ELSE /\ out' = Append(out, << "got", call.num_correct, call.num_samples,
                                     Percent(call.num_correct, call.num_samples) >>)
            /\ hist' = Append(hist, Returned)
            /\ pc' = "idle"
    /\ UNCHANGED << globalVars, models, optimizer, todo, call, ops, shapeVars >>

CallStep ==
    \/ StartInline
    \/ StartTrain
    \/ EpochStart
    \/ FetchBatch
    \/ Forward
    \/ LossStep
    \/ ZeroGrad
    \/ Backward
    \/ OptStep
    \/ StartCheck
    \/ CountBatch
    \/ Report

\* ------------------------------------------------------------- the cells
CellOrder ==
    << "simple", "fixed", "shape_cpu", "shape_gpu", "timeit_cpu", "timeit_gpu",
       "optim", "train_cell", "reset_train", "final", "test" >>

AtCell(name) ==
    /\ pc = "idle" /\ todo = << >>
    /\ cell >= 1 /\ cell <= Len(CellOrder)
    /\ CellOrder[cell] = name

Optimizer(rule, target) == [rule |-> rule, target |-> target]

callVars == << todo, pc, call, ops, out, hist >>

\* simple_model = nn.Sequential(...); optimizer = optim.Adam(simple_model...)
CellSimple ==
    /\ AtCell("simple")
    /\ models' = [models EXCEPT !["simple_model"] = NewModel("simple_model", rng.cpu)]
    /\ rng' = [rng EXCEPT !.cpu = RngNext(@)]
    /\ optimizer' = Optimizer("Adam", "simple_model")
    /\ cell' = cell + 1
    /\ UNCHANGED << cfg, loaders, binding, callVars, shapeVars >>

\* fixed_model_base = nn.Sequential(...); fixed_model = fixed_model_base.type(dtype);
\* optimizer = optim.RMSprop(simple_model.parameters(), lr=1e-2)
CellFixed ==
    /\ AtCell("fixed")
    /\ models' = [models EXCEPT
                    !["fixed_model_base"] = NewModel("fixed_model_base", rng.cpu)]
    /\ rng' = [rng EXCEPT !.cpu = RngNext(@)]
    /\ binding' = [binding EXCEPT !.fixed_model = "fixed_model_base"]
    /\ optimizer' = Optimizer("RMSprop", "simple_model")
    /\ cell' = cell + 1
    /\ UNCHANGED << cfg, loaders, callVars, shapeVars >>

\* ans = fixed_model(x_var) for x of 64 x 3 x 32 x 32; ans.size() == [64, 10]
CellShapeCpu ==
    /\ AtCell("shape_cpu")
    /\ LET r == SequentialForward(LayersOf(models[binding.fixed_model].arch), 1,
                                  ImageBatch(CheckBatch))
       IN  /\ out' = << << "result", r = << CheckBatch, NumClasses >> >> >>
           /\ pc' = IF r = << >> THEN "raised" ELSE "idle"
    /\ cell' = cell + 1
    /\ UNCHANGED << cfg, loaders, models, binding, optimizer, rng, todo, call,
                    ops, hist, shapeVars >>

\* fixed_model_gpu = copy.deepcopy(fixed_model_base).type(gpu_dtype), and the
\* same check of its output.
CellShapeGpu ==
    /\ AtCell("shape_gpu")
    /\ models' = [models EXCEPT !["fixed_model_gpu"] = models["fixed_model_base"]]
    /\ LET r == SequentialForward(LayersOf(models["fixed_model_base"].arch), 1,
                                  ImageBatch(CheckBatch))
       IN  /\ out' = << << "result", r = << CheckBatch, NumClasses >> >> >>
           /\ pc' = IF r = << >> THEN "raised" ELSE "idle"
    /\ cell' = cell + 1
    /\ UNCHANGED << cfg, loaders, binding, optimizer, rng, todo, call, ops, hist,
                    shapeVars >>

\* %%timeit ans = fixed_model(x_var): forward passes only.
CellTimeitCpu ==
    /\ AtCell("timeit_cpu")
    /\ models[binding.fixed_model].exists
    /\ cell' = cell + 1
    /\ out' = << >>
    /\ UNCHANGED << cfg, loaders, models, binding, optimizer, rng, todo, pc, call,
                    ops, hist, shapeVars >>

\* %%timeit ans = fixed_model_gpu(x_var_gpu): forward passes only.
CellTimeitGpu ==
    /\ AtCell("timeit_gpu")
    /\ models["fixed_model_gpu"].exists
    /\ cell' = cell + 1
    /\ out' = << >>
    /\ UNCHANGED << cfg, loaders, models, binding, optimizer, rng, todo, pc, call,
                    ops, hist, shapeVars >>

\* optimizer = optim.RMSprop(fixed_model_gpu.parameters(), lr=1e-3)
CellOptim ==
    /\ AtCell("optim")
    /\ optimizer' = Optimizer("RMSprop", "fixed_model_gpu")
    /\ cell' = cell + 1
    /\ UNCHANGED << cfg, loaders, models, binding, rng, callVars, shapeVars >>

\* The inline training cell is run.
CellTrain ==
    /\ AtCell("train_cell")
    /\ todo' = << Statement("cell_train", "fixed_model_gpu", "loader_train", 1) >>
    /\ cell' = cell + 1
    /\ UNCHANGED << cfg, loaders, models, binding, optimizer, rng, pc, call, ops,
                    out, hist, shapeVars >>

\* torch.cuda.random.manual_seed(12345); fixed_model_gpu.apply(reset);
\* train(fixed_model_gpu, ...); check_accuracy(fixed_model_gpu, loader_val)
CellResetTrain ==
    /\ AtCell("reset_train")
    /\ models' = [models EXCEPT !["fixed_model_gpu"] = ApplyReset(@, MANUAL_SEED)]
    /\ rng' = [rng EXCEPT !.cuda = RngNext(MANUAL_SEED)]
    /\ todo' = << Statement("train", "fixed_model_gpu", "loader_train", 1),
                  Statement("check_accuracy", "fixed_model_gpu", "loader_val", 0) >>
    /\ cell' = cell + 1
    /\ UNCHANGED << cfg, loaders, binding, optimizer, pc, call, ops, out, hist,
                    shapeVars >>

\* model = nn.Sequential(...); optimizer = optim.Adam(model.parameters());
\* train(model, ...); check_accuracy(model, loader_val)
CellFinal ==
    /\ AtCell("final")
    /\ models' = [models EXCEPT !["model"] = NewModel("model", rng.cpu)]
    /\ rng' = [rng EXCEPT !.cpu = RngNext(@)]
    /\ optimizer' = Optimizer("Adam", "model")
    /\ todo' = << Statement("train", "model", "loader_train", 1),
                  Statement("check_accuracy", "model", "loader_val", 0) >>
    /\ cell' = cell + 1
    /\ UNCHANGED << cfg, loaders, binding, pc, call, ops, out, hist, shapeVars >>

CellTest_stale ==
    /\ AtCell("test")
    /\ binding' = [binding EXCEPT !.best_model = "fixed_model_gpu"]
    /\ todo' = << Statement("check_accuracy", "fixed_model_gpu", "loader_test", 0) >>
    /\ cell' = cell + 1
    /\ UNCHANGED << cfg, loaders, models, optimizer, rng, pc, call, ops, out,
                    hist, shapeVars >>

\* best_model = model; check_accuracy(best_model, loader_test)
CellTest ==
    /\ AtCell("test")
    /\ binding' = [binding EXCEPT !.best_model = "model"]
    /\ todo' = << Statement("check_accuracy", "model", "loader_test", 0) >>
    /\ cell' = cell + 1
    /\ UNCHANGED << cfg, loaders, models, optimizer, rng, pc, call, ops, out,
                    hist, shapeVars >>

CellStep ==
    \/ CellSimple
    \/ CellFixed
    \/ CellShapeCpu
    \/ CellShapeGpu
    \/ CellTimeitCpu
    \/ CellTimeitGpu
    \/ CellOptim
    \/ CellTrain
    \/ CellResetTrain
    \/ CellFinal
    \/ CellTest

\* ------------------------------------------- calls in any order, small data
PrintEveryChoices == {1, 2}

UserStatements ==
    {Statement("cell_train", "fixed_model_gpu", "loader_train", 1)}
    \cup {Statement("train", "fixed_model_gpu", "loader_train", k) : k \in 1 .. MaxEpochs}
    \cup {Statement("check_accuracy", "fixed_model_gpu", l, 0) :
              l \in {"loader_train", "loader_val", "loader_test"}}

\* The user runs the training cell again, or calls train or check_accuracy.
UserCall ==
    /\ pc = "idle" /\ todo = << >>
    /\ cell = 0
    /\ Len(hist) < MaxCalls
    /\ \E st \in UserStatements : todo' = << st >>
    /\ UNCHANGED << globalVars, models, optimizer, pc, call, ops, out, hist,
                    shapeVars >>

\* ------------------------------------------- a framework call that raises
\* The framework calls of a batch that can raise: the forward pass, the loss
\* and the backward pass.
RaisePoints == {"forward", "loss", "backward"}

\* What a raising call leaves in the stored gradient: loss.backward() may
\* have added to it before it raised, the other calls do not touch it.
GradAfterRaise(m, at, loss) ==
    IF at = "backward" THEN {m.grad, BackwardOf(m, loss).grad} ELSE {m.grad}

Raise_rollback ==
    /\ call.fn \in {"train", "cell_train"} /\ pc \in RaisePoints
    /\ models' = [models EXCEPT ![call.model].w = call.w0]
    /\ pc' = "raised"
    /\ todo' = << >>
    /\ out' = Append(out, << "raised", call.fn >>)
    /\ hist' = Append(hist, [Returned EXCEPT !.fn = "raised"])
    /\ UNCHANGED << globalVars, optimizer, call, ops, shapeVars >>

\* A framework call made for a batch raises.  train and the training cell
\* have no try statement: the exception leaves the loops and the function,
\* the statements that follow in the cell are not run, and the traceback is
\* printed.  hist records the call that ended with fn "raised".
Raise ==
    /\ call.fn \in {"train", "cell_train"} /\ pc \in RaisePoints
    /\ \E g \in GradAfterRaise(models[call.model], pc, call.loss) :
          models' = [models EXCEPT ![call.model].grad = g]
    /\ pc' = "raised"
    /\ todo' = << >>
    /\ out' = Append(out, << "raised", call.fn >>)
    /\ hist' = Append(hist, [Returned EXCEPT !.fn = "raised"])
    /\ UNCHANGED << globalVars, optimizer, call, ops, shapeVars >>

TrainStatements == {st \in UserStatements : st.fn # "check_accuracy"}

\* The user runs the training cell or calls train, also after a traceback:
\* the kernel is still there.
UserTrain ==
    /\ pc \in {"idle", "raised"} /\ todo = << >>
    /\ cell = 0
    /\ Len(hist) < MaxCalls
    /\ \E st \in TrainStatements : todo' = << st >>
    /\ pc' = "idle"
    /\ UNCHANGED << globalVars, models, optimizer, call, ops, out, hist,
                    shapeVars >>

mainVars ==
    << cfg, loaders, models, binding, optimizer, rng, cell, todo, pc, call, ops,
       out, hist >>

MainIdle ==
    /\ cfg = [NUM_TRAIN |-> 0, NUM_VAL |-> 0, NUM_TEST |-> 0, batch_size |-> 1,
              print_every |-> 1]
    /\ loaders = MakeLoaders(cfg)
    /\ models = [m \in ModelNames |-> NoModel]
    /\ binding = [fixed_model |-> "none", best_model |-> "none"]
    /\ optimizer = Optimizer("none", "none")
    /\ rng = [cpu |-> 0, cuda |-> 0]
    /\ cell = 0
    /\ todo = << >>
    /\ pc = "off"
    /\ call = NoCall
    /\ ops = << >>
    /\ out = << >>
    /\ hist = << >>

\* ------------------------------------------------- the layer-stack walk
BatchSizes == (1 .. MaxSmallBatch) \cup {NUM_TRAIN % BATCH_SIZE, CheckBatch}

ShInit ==
    \E arch \in Archs, n \in BatchSizes :
        sh = [arch |-> arch, i |-> 1, x |-> ImageBatch(n), n |-> n]
ShIdle == [arch |-> "none", i |-> 0, x |-> << >>, n |-> 0]

ApplyLayer ==
    /\ sh.arch \in Archs
    /\ sh.i <= Len(LayersOf(sh.arch))
    /\ sh.x # << >>
    /\ sh.x[1] = sh.n
    /\ sh' = [sh EXCEPT !.x = LayerForward(LayersOf(sh.arch)[sh.i], sh.x),
                        !.i = sh.i + 1]
    /\ UNCHANGED << mainVars, ls >>

\* ------------------------------------------------- the sampler walk
LsIdle ==
    [sampler |-> ChunkSampler(0, 0), batch_size |-> 1, it |-> SamplerIter(ChunkSampler(0, 0)),
     mode |-> "none", yielded |-> << >>, batches |-> << >>, prev |-> << >>,
     iters |-> 0, len |-> -1, stopped |-> FALSE]

LsInit ==
    \E n \in 0 .. MaxNum, st \in 0 .. MaxStart, b \in 1 .. MaxBatch :
        ls = [LsIdle EXCEPT !.sampler = ChunkSampler(n, st), !.batch_size = b]

\* iter(sampler), or iter(DataLoader(..., sampler = sampler)).
LsIter ==
    /\ ls.mode = "none" \/ ls.stopped
    /\ ls.iters < MaxIters
    /\ \E mode \in {"sampler", "loader"} :
         ls' = [ls EXCEPT !.it = SamplerIter(ls.sampler), !.mode = mode,
                          !.prev = IF ls.iters = 0 THEN << >> ELSE ls.yielded,
                          !.yielded = << >>, !.batches = << >>,
                          !.iters = ls.iters + 1, !.stopped = FALSE]
    /\ UNCHANGED << mainVars, sh >>

\* next() on the sampler's iterator.
LsNext ==
    /\ ls.mode = "sampler"
    /\ ~ls.stopped
    /\ IF IterDone(ls.it)
       THEN ls' = [ls EXCEPT !.stopped = TRUE]
       ELSE ls' = [ls EXCEPT !.yielded = Append(ls.yielded, IterNth(ls.it, 1)),
                             !.it = IterSkip(ls.it, 1)]
    /\ UNCHANGED << mainVars, sh >>

\* next() on the DataLoader's iterator: one batch.
LsNextBatch ==
    /\ ls.mode = "loader"
    /\ ~ls.stopped
    /\ IF IterDone(ls.it)
       THEN ls' = [ls EXCEPT !.stopped = TRUE]
       ELSE LET b == TakeBatch(ls.it, ls.batch_size) IN
            ls' = [ls EXCEPT !.yielded = ls.yielded \o b,
                             !.batches = Append(ls.batches, b),
                             !.it = IterSkip(ls.it, ls.batch_size)]
    /\ UNCHANGED << mainVars, sh >>

\* len(sampler).
LsLen ==
    /\ ls.len = -1
    /\ ls' = [ls EXCEPT !.len = SamplerLen(ls.sampler)]
    /\ UNCHANGED << mainVars, sh >>

vars == << mainVars, sh, ls >>

\* The notebook, its cells run once each from top to bottom, after the cells
\* that import the framework, build the loaders and set print_every.
Init ==
    /\ cfg = [NUM_TRAIN |-> NUM_TRAIN, NUM_VAL |-> NUM_VAL, NUM_TEST |-> NUM_TEST,
              batch_size |-> BATCH_SIZE, print_every |-> PRINT_EVERY]
    /\ loaders = MakeLoaders(cfg)
    /\ models = [m \in ModelNames |-> NoModel]
    /\ binding = [fixed_model |-> "none", best_model |-> "none"]
    /\ optimizer = Optimizer("none", "none")
    /\ \E seed \in 0 .. NumSeeds - 1 : rng = [cpu |-> seed, cuda |-> seed]
    /\ cell = 1
    /\ todo = << >>
    /\ pc = "idle"
    /\ call = NoCall
    /\ ops = << >>
    /\ out = << >>
    /\ hist = << >>
    /\ sh = ShIdle
    /\ ls = LsIdle
Next == CellStep \/ CallStep
Spec == Init /\ [][Next]_vars

\* fixed_model_gpu and its optimizer as the notebook leaves them before the
\* training cell, on small loaders; then any calls.
InitCalls ==
    /\ \E n \in 1 .. MaxSamples, b \in 1 .. MaxBatch, pe \in PrintEveryChoices :
         cfg = [NUM_TRAIN |-> n, NUM_VAL |-> MaxSamples + 1 - n, NUM_TEST |-> n + 1,
                batch_size |-> b, print_every |-> pe]
    /\ loaders = MakeLoaders(cfg)
    /\ \E seed \in 0 .. NumSeeds - 1 :
         /\ models = [m \in ModelNames |->
                        IF m = "fixed_model_gpu"
                        THEN NewModel("fixed_model_base", seed) ELSE NoModel]
         /\ rng = [cpu |-> RngNext(seed), cuda |-> seed]
    /\ binding = [fixed_model |-> "none", best_model |-> "none"]
    /\ optimizer = Optimizer("RMSprop", "fixed_model_gpu")
    /\ cell = 0
    /\ todo = << >>
    /\ pc = "idle"
    /\ call = NoCall
    /\ ops = << >>
    /\ out = << >>
    /\ hist = << >>
    /\ sh = ShIdle
    /\ ls = LsIdle
NextCalls == UserCall \/ CallStep
SpecCalls == InitCalls /\ [][NextCalls]_vars

\* The training calls, any framework call of a batch free to raise.
TrainStep ==
    \/ StartInline
    \/ StartTrain
    \/ EpochStart
    \/ FetchBatch
    \/ Forward
    \/ LossStep
    \/ ZeroGrad
    \/ Backward
    \/ OptStep
NextFail == UserTrain \/ TrainStep \/ Raise
SpecFail == InitCalls /\ [][NextFail]_vars

InitShapes == ShInit /\ ls = LsIdle /\ MainIdle
NextShapes == ApplyLayer
SpecShapes == InitShapes /\ [][NextShapes]_vars

InitLoader == LsInit /\ sh = ShIdle /\ MainIdle
NextLoader == LsIter \/ LsNext \/ LsNextBatch \/ LsLen
SpecLoader == InitLoader /\ [][NextLoader]_vars

\* ================================================================ claims

Ascending(s) == [k \in 1 .. s.num_samples |-> s.start + k - 1]

\* C4 as written: the training loader (offset 0) delivers the indices of an
\* epoch in a shuffled order, not in the ascending order of the dataset.
C4_ShuffledOrder ==
    (ls.mode = "loader" /\ ls.stopped /\ ls.sampler.start = 0
        /\ ls.sampler.num_samples >= 2)
    => ls.yielded # Ascending(ls.sampler)

\* C4 amended: a loader built on a ChunkSampler delivers the indices in the
\* fixed ascending order start, start+1, ..., in consecutive batches of
\* batch_size (the last one shorter), and every epoch delivers the same order.
C4_AscendingOrder ==
    ls.mode = "loader" =>
        /\ \A k \in 1 .. Len(ls.yielded) : ls.yielded[k] = ls.sampler.start + k - 1
        /\ \A j \in 1 .. Len(ls.batches) :
             /\ Len(ls.batches[j]) =
                  Min(ls.batch_size, ls.sampler.num_samples - (j - 1) * ls.batch_size)
             /\ \A k \in 1 .. Len(ls.batches[j]) :
                  ls.batches[j][k] =
                      ls.sampler.start + (j - 1) * ls.batch_size + k - 1
        /\ ls.stopped => ls.yielded = Ascending(ls.sampler)
        /\ (ls.stopped /\ ls.iters > 1) => ls.yielded = ls.prev

C4_Witness ==
    /\ ls.mode = "loader" /\ ls.stopped /\ ls.iters = 2
    /\ ls.sampler.start = 0 /\ ls.sampler.num_samples = 4 /\ ls.batch_size = 3
    /\ ls.batches = << << 0, 1, 2 >>, << 3 >> >>
    /\ ls.prev = << 0, 1, 2, 3 >>

\* C5: iterating a ChunkSampler(num_samples, start) yields start, start+1, ...,
\* start+num_samples-1 in increasing order, len() is num_samples and is the
\* number of indices yielded, and a second iteration yields the same sequence.
C5_SequentialFromOffset ==
    /\ ls.len # -1 => ls.len = ls.sampler.num_samples
    /\ ls.mode = "sampler" =>
        /\ Len(ls.yielded) <= ls.sampler.num_samples
        /\ \A k \in 1 .. Len(ls.yielded) : ls.yielded[k] = ls.sampler.start + k - 1
        /\ ls.stopped => Len(ls.yielded) = ls.sampler.num_samples
        /\ (ls.stopped /\ ls.len # -1) => ls.len = Len(ls.yielded)
        /\ (ls.stopped /\ ls.iters > 1) => ls.yielded = ls.prev

C5_Witness ==
    /\ ls.mode = "sampler" /\ ls.stopped /\ ls.iters = 2
    /\ ls.sampler.start = 2 /\ ls.len = 3
    /\ ls.yielded = << 2, 3, 4 >> /\ ls.prev = << 2, 3, 4 >>

FirstLinearIn(arch) ==
    CASE arch = "simple_model" -> 5408
      [] arch = "fixed_model_base" -> 5408
      [] OTHER -> 8192

\* C7: walking a 3x32x32 input through each layer stack, the shape leaving a
\* layer is one the next layer accepts: the channels entering a Conv2d or a
\* BatchNorm2d are the ones it was built for, Flatten leaves 5408, 5408 and
\* 8192 features, which is the in_features of the Linear that follows, and
\* every later Linear receives the out_features of the one before.
C7_LayersChain ==
    sh.arch \in Archs =>
        LET layers == LayersOf(sh.arch) IN
        /\ sh.x # << >>
        /\ sh.i <= Len(layers) =>
            /\ Accepts(layers[sh.i], sh.x)
            /\ layers[sh.i].kind \in {"Conv2d", "BatchNorm2d"}
                  => sh.x[2] = layers[sh.i].cin
            /\ layers[sh.i].kind = "Linear" => sh.x = << sh.n, layers[sh.i].cin >>
        /\ (sh.i > 1 /\ sh.i <= Len(layers) /\ layers[sh.i - 1].kind = "Flatten") =>
            /\ sh.x = << sh.n, FirstLinearIn(sh.arch) >>
            /\ layers[sh.i].kind = "Linear"
            /\ layers[sh.i].cin = FirstLinearIn(sh.arch)

C7_Witness ==
    /\ sh.arch = "model"
    /\ sh.i = 13
    /\ LayersOf(sh.arch)[12].kind = "Flatten"
    /\ sh.x = << CheckBatch, 8192 >>

C8_OutputShape ==
    (sh.arch = "fixed_model_base" /\ sh.i > Len(LayersOf(sh.arch)))
        => sh.x = << sh.n, NumClasses >>

C8_FlattenStep ==
    (sh.arch = "fixed_model_base" /\ sh.i <= Len(LayersOf(sh.arch))
        /\ LayersOf(sh.arch)[sh.i].kind = "Flatten")
    => sh'.x = << sh.n, sh.x[2] * sh.x[3] * sh.x[4] >>

\* C8: for every batch size N, an N x 3 x 32 x 32 batch leaves fixed_model as
\* N x 10, and its Flatten layer keeps N and collapses C, H, W into C*H*W.
C8_BatchByTen == [] C8_OutputShape /\ [][C8_FlattenStep]_vars

C8_Witness ==
    /\ sh.arch = "fixed_model_base"
    /\ sh.i > Len(LayersOf(sh.arch))
    /\ sh.n = NUM_TRAIN % BATCH_SIZE
    /\ sh.x = << 40, 10 >>
\* ------------------------------------------------ claims about the calls

Training == call.fn \in {"train", "cell_train"}

\* The number of batches of one pass over a loader.
NumBatches(loader) ==
    (loader.sampler.num_samples + loader.batch_size - 1) \div loader.batch_size

LoaderIndices(loader) ==
    loader.sampler.start .. (loader.sampler.start + loader.sampler.num_samples - 1)

CheckReturned == pc = "idle" /\ call.fn = "check_accuracy"

\* C1: when check_accuracy returns, the line it printed gives as total the
\* number of samples of the loader (1000 for loader_val, 10000 for
\* loader_test), as correct the number of those samples whose highest-scoring
\* class is their label, with 0 <= correct <= total, and as percent
\* 100 * correct / total.
C1_AccuracyCounts ==
    /\ call.fn = "check_accuracy" =>
          (0 <= call.num_correct /\ call.num_correct <= call.num_samples)
    /\ CheckReturned =>
          LET ld == loaders[call.loader]
              w == models[call.model].w
              line == out[Len(out)]
          IN  /\ line[1] = "got"
              /\ line[2] = call.num_correct
              /\ line[3] = call.num_samples
              /\ line[3] = ld.sampler.num_samples
              /\ line[3] = (NumBatches(ld) - 1) * ld.batch_size + Len(call.batch)
              /\ call.loader = "loader_val" => line[3] = 1000
              /\ call.loader = "loader_test" => line[3] = 10000
              /\ line[2] = Cardinality({i \in LoaderIndices(ld) :
                              ArgMax(ScoreRow(w, ld.dataset.train, i))
                                  = DataLabel(ld.dataset.train, i)})
              /\ 0 <= line[2] /\ line[2] <= line[3]
              /\ line[4] * line[3] = 10000 * line[2]

C1_Witness ==
    /\ CheckReturned
    /\ call.loader = "loader_test"
    /\ call.num_samples = 10000
    /\ call.num_correct > 0 /\ call.num_correct < 10000
    /\ Len(call.batch) = 16

OpsOrder == << "forward", "loss", "zero_grad", "backward", "step" >>

OpsDone ==
    CASE pc = "forward" -> 0
      [] pc = "loss" -> 1
      [] pc = "zero_grad" -> 2
      [] pc = "backward" -> 3
      [] pc = "step" -> 4
      [] OTHER -> 5

\* C2: in train and in the training cell the calls made for a batch are, in
\* this order, forward, loss, zero_grad, backward, step; one optimizer step is
\* made per batch; and the gradient an optimizer step consumes is the gradient
\* of the current batch's loss alone.
C2_OneStepPerBatch ==
    (Training /\ pc \in {"forward", "loss", "zero_grad", "backward", "step", "fetch"}
        /\ call.t >= 0) =>
        /\ ops = SubSeq(OpsOrder, 1, OpsDone)
        /\ call.steps = call.epoch * NumBatches(loaders.loader_train) + call.t
                          + (IF pc = "fetch" THEN 1 ELSE 0)
        /\ pc = "step" =>
              /\ optimizer.target = call.model
              /\ call.loss = CrossEntropy(
                    ModelForward(models[call.model],
                                 loaders.loader_train.dataset.train, call.batch),
                    call.y)
              /\ models[optimizer.target].grad
                    = GradOf(call.loss, models[call.model].w)

C2_Witness ==
    /\ call.fn = "train" /\ pc = "step"
    /\ call.epoch = 1 /\ call.t = 1
    /\ call.steps = NumBatches(loaders.loader_train) + 1
    /\ models[call.model].grad # 0
    /\ Len(hist) = 1 /\ hist[1].fn = "cell_train"

\* C3: every forward pass of check_accuracy runs with the model in eval mode
\* and every forward pass of train (and of the training cell) runs with it in
\* training mode, whatever call came before.
C3_ModeAtForward ==
    /\ pc = "forward" =>
          models[call.model].training = (call.fn # "check_accuracy")
    /\ (call.mode # "none" /\ call.fn = "check_accuracy") => call.mode = "eval"
    /\ (call.mode # "none" /\ Training) => call.mode = "train"

C3_Witness ==
    /\ call.fn = "train" /\ pc = "loss" /\ call.mode = "train"
    /\ call.epoch = 1
    /\ Len(hist) = 1 /\ hist[1].fn = "check_accuracy"

RECURSIVE TLinesFrom(_, _)
TLinesFrom(lines, k) ==
    IF k = 0 \/ lines[k][1] = "epoch" THEN << >>
    ELSE IF lines[k][1] = "t" THEN Append(TLinesFrom(lines, k - 1), lines[k][2])
    ELSE TLinesFrom(lines, k - 1)

\* The iteration numbers of the progress lines printed in the current epoch.
EpochLines == TLinesFrom(out, Len(out))

Multiples(n, upto) == [k \in 1 .. (upto \div n) |-> k * n]

EpochEnded ==
    \/ call.fn = "train" /\ pc \in {"epoch", "idle"} /\ call.epoch > 0
    \/ call.fn = "cell_train" /\ pc = "idle"

\* C6: in every epoch the progress lines printed so far are exactly those of
\* the batches whose 1-based number is a multiple of print_every, in
\* increasing order, the numbering starting at 1 again in each epoch; an epoch
\* has 766 batches, the last of 40 samples, and prints t = 100, ..., 700.
C6_ProgressLines ==
    Training =>
        /\ pc \in {"forward", "loss"} =>
              EpochLines = Multiples(cfg.print_every, call.t)
        /\ pc \in {"zero_grad", "backward", "step", "fetch"} =>
              EpochLines = Multiples(cfg.print_every, call.t + 1)
        /\ EpochEnded =>
              /\ call.t + 1 = 766
              /\ Len(call.batch) = 40
              /\ EpochLines = << 100, 200, 300, 400, 500, 600, 700 >>

C6_Witness ==
    /\ call.fn = "train" /\ call.model = "model"
    /\ pc = "idle" /\ call.epoch = 1 /\ call.t = 765
    /\ Len(out) = 8
    /\ out[1] = << "epoch", 1, 1 >>
    /\ out[8][1] = "t" /\ out[8][2] = 700

ResetCellRun ==
    \E k \in 1 .. Len(CellOrder) : CellOrder[k] = "reset_train" /\ cell > k

C9_InitCounts ==
    \A m \in ModelNames :
        models[m].exists =>
            IF m = "fixed_model_gpu" /\ ResetCellRun
            THEN /\ models[m].inits = 2
                 /\ models[m].stepsAtInit = NumBatches(loaders.loader_train)
            ELSE /\ models[m].inits = 1
                 /\ models[m].stepsAtInit = 0

C9_ChangeIsStepOrReset ==
    \A m \in ModelNames :
        (models[m].exists /\ models'[m].w # models[m].w) =>
            \/ pc = "step" /\ m = optimizer.target
                  /\ models'[m].steps = models[m].steps + 1
            \/ AtCell("reset_train") /\ m = "fixed_model_gpu"

RECURSIVE EpochsRun(_, _)
EpochsRun(h, k) ==
    IF k = 0 THEN 0
    ELSE EpochsRun(h, k - 1)
            + (IF h[k].fn \in {"train", "cell_train"} THEN h[k].epochs ELSE 0)

\* C10: neither the training cell nor train() re-initializes the parameters:
\* each call starts from the parameters the call before left, an epoch starts
\* from the parameters the epoch before left, and after the calls the model
\* has received one optimizer step per batch of every epoch run.
C10_TrainingAccumulates ==
    /\ models["fixed_model_gpu"].inits = 1
    /\ \A k \in 2 .. Len(hist) : hist[k].w0 = hist[k - 1].w1
    /\ (pc # "idle" /\ Len(hist) >= 1) => call.w0 = hist[Len(hist)].w1
    /\ (Training /\ pc = "fetch" /\ call.t = -1) =>
          models[call.model].w = call.wEpoch
    /\ (pc = "idle" /\ todo = << >>) =>
          models["fixed_model_gpu"].steps
              = EpochsRun(hist, Len(hist)) * NumBatches(loaders.loader_train)

C10_Witness ==
    /\ pc = "idle" /\ todo = << >> /\ Len(hist) = 2
    /\ hist[1].fn = "cell_train" /\ hist[2].fn = "cell_train"
    /\ hist[1].w1 # hist[1].w0
    /\ hist[2].w1 # hist[2].w0
    /\ models["fixed_model_gpu"].steps = 2 * NumBatches(loaders.loader_train)
    /\ NumBatches(loaders.loader_train) = 2

\* ------------------------------------------- claims about check_accuracy

InCheck == call.fn = "check_accuracy" /\ pc # "idle"

CheckingLines == {k \in 1 .. Len(out) : out[k][1] = "checking"}

\* C11: check_accuracy prints one announcement per call, first of all its
\* output and before the first batch is evaluated: 'validation set' when the
\* loader's dataset has train set (loader_val, and loader_train as well),
\* 'test set' when it has not (loader_test).
C11_Announcement ==
    call.fn = "check_accuracy" =>
        /\ CheckingLines = {1}
        /\ out[1] = << "checking",
                       IF loaders[call.loader].dataset.train
                       THEN "validation" ELSE "test" >>
        /\ call.loader = "loader_val" => out[1][2] = "validation"
        /\ call.loader = "loader_test" => out[1][2] = "test"
        /\ (pc = "fetch" /\ call.batch = << >>) =>
              (Len(out) = 1 /\ call.num_samples = 0)

C11_Witness ==
    /\ CheckReturned
    /\ call.loader = "loader_train"
    /\ out[1] = << "checking", "validation" >>
    /\ Len(out) = 2 /\ out[2][1] = "got"
    /\ Len(hist) = 2 /\ hist[1].fn = "check_accuracy"
    /\ hist[1].loader = "loader_test"

TestChecks == {k \in 1 .. Len(hist) : hist[k].loader = "loader_test"}

TestStarted == call.fn = "check_accuracy" /\ call.loader = "loader_test"

\* The calls that had returned when the test check was entered.
BeforeTest == IF pc = "idle" THEN Len(hist) - 1 ELSE Len(hist)

C12_TestLast ==
    /\ ~TestStarted => TestChecks = {}
    /\ TestStarted =>
          LET j == BeforeTest
              best == binding.best_model
          IN  /\ cell = Len(CellOrder) + 1 /\ todo = << >>
              /\ TestChecks \subseteq {j + 1}
              /\ call.model = best
              /\ j >= 2
              /\ hist[j].fn = "check_accuracy" /\ hist[j].loader = "loader_val"
              /\ hist[j].model = best
              /\ hist[j - 1].fn = "train" /\ hist[j - 1].model = best
              /\ hist[j].w0 = hist[j - 1].w1
              /\ hist[j].w1 = hist[j].w0
              /\ models[best].w = hist[j].w1
              /\ call.w0 = hist[j].w1
              /\ models[best].steps = hist[j - 1].steps

C12_NothingAfterTest ==
    TestStarted =>
        /\ TestStarted'
        /\ \A m \in ModelNames :
              models'[m].w = models[m].w /\ models'[m].steps = models[m].steps
        /\ pc' \notin {"zero_grad", "backward", "step"}

\* C12: with the cells run once each in order, check_accuracy is called on
\* loader_test once, by the last cell, after every train call and every
\* validation check has returned; no optimizer step follows it; and the model
\* it evaluates, best_model, is the model of the last validation check, with
\* the parameters that check measured.
C12_TestOnceAtEnd == [] C12_TestLast /\ [][C12_NothingAfterTest]_vars

C12_Witness ==
    /\ TestStarted /\ pc = "idle"
    /\ Len(hist) = 6 /\ TestChecks = {6}
    /\ hist[6].num_samples = 10000
    /\ hist[5].loader = "loader_val" /\ hist[5].model = "model"
    /\ hist[4].fn = "train" /\ hist[4].steps = 766 /\ hist[4].w1 # hist[4].w0
    /\ binding.best_model = "model"

\* ------------------------------------------------ claims about failures

RECURSIVE StepsOf(_, _)
StepsOf(h, k) == IF k = 0 THEN 0 ELSE StepsOf(h, k - 1) + h[k].steps

TrainRaised == pc = "raised" /\ Training

C13_UpdatesKept ==
    /\ \A k \in 2 .. Len(hist) : hist[k].w0 = hist[k - 1].w1
    /\ pc \in {"idle", "raised"} =>
          models["fixed_model_gpu"].steps = StepsOf(hist, Len(hist))
    /\ TrainRaised =>
          /\ hist[Len(hist)].fn = "raised"
          /\ hist[Len(hist)].steps = call.steps
          /\ hist[Len(hist)].w1 = models[call.model].w
          /\ call.steps = call.epoch * NumBatches(loaders.loader_train) + call.t
          /\ call.t < NumBatches(loaders.loader_train)
          /\ call.fn = "train" => call.epoch < call.num_epochs
          /\ todo = << >>

C13_NoRecovery ==
    /\ (pc # "raised" /\ pc' = "raised") =>
          /\ \A m \in ModelNames :
                models'[m].w = models[m].w /\ models'[m].steps = models[m].steps
          /\ optimizer' = optimizer
          /\ call' = call
    /\ pc = "raised" =>
          /\ pc' \in {"raised", "idle"}
          /\ models' = models /\ call' = call /\ hist' = hist
          /\ pc' = "idle" => (Len(todo') = 1 /\ todo'[1] \in TrainStatements)

\* C13: when a framework call made for a batch raises inside train (or the
\* training cell), the call ends there: no batch and no epoch of it is run
\* afterwards, nothing is retried, the parameters are those the optimizer
\* steps of the batches completed before left, and the next call starts from
\* them.
C13_RaisePropagates == [] C13_UpdatesKept /\ [][C13_NoRecovery]_vars

C13_Witness ==
    /\ TrainRaised /\ call.fn = "train"
    /\ call.num_epochs = 2 /\ call.epoch = 0 /\ call.t = 1
    /\ NumBatches(loaders.loader_train) = 3
    /\ call.steps = 1
    /\ models[call.model].w # call.w0
    /\ Len(hist) = 2 /\ hist[1].fn = "raised" /\ hist[1].steps = 1

\* --------------------------------------- claims about check_accuracy's frame

\* The samples a check_accuracy call has counted so far.
Counted ==
    IF pc = "count" THEN call.it.next - Len(call.batch)
                            - loaders[call.loader].sampler.start
    ELSE call.it.next - loaders[call.loader].sampler.start

C14_CountsRepeat ==
    /\ \A k \in 1 .. Len(hist) :
          hist[k].fn = "check_accuracy" =>
              /\ hist[k].steps = 0
              /\ hist[k].w1 = hist[k].w0
              /\ hist[k].num_samples = loaders[hist[k].loader].sampler.num_samples
    /\ \A k \in 2 .. Len(hist) :
          (/\ hist[k].fn = "check_accuracy" /\ hist[k - 1].fn = "check_accuracy"
           /\ hist[k].model = hist[k - 1].model
           /\ hist[k].loader = hist[k - 1].loader) =>
              /\ hist[k].num_correct = hist[k - 1].num_correct
              /\ hist[k].num_samples = hist[k - 1].num_samples
    /\ call.fn = "check_accuracy" =>
          /\ call.steps = 0
          /\ models[call.model].w = call.w0
          /\ ~models[call.model].training
          /\ pc \in {"fetch", "count", "report"} => call.num_samples = Counted
          /\ call.num_correct <= call.num_samples

\* A step of check_accuracy, its entry included.
CheckStep ==
    \/ call.fn = "check_accuracy" /\ pc # "idle"
    \/ pc = "idle" /\ todo # << >> /\ Head(todo).fn = "check_accuracy"

C14_OnlyModeChanges ==
    CheckStep =>
        /\ \A m \in ModelNames :
              /\ models'[m].w = models[m].w
              /\ models'[m].grad = models[m].grad
              /\ models'[m].steps = models[m].steps
              /\ models'[m].inits = models[m].inits
              /\ m # call'.model => models'[m] = models[m]
        /\ ~models'[call'.model].training
        /\ UNCHANGED << cfg, loaders, binding, optimizer, rng >>

\* C14: check_accuracy applies no optimizer step and leaves parameters,
\* gradients, optimizer, loaders and settings as they were; of the model it
\* changes the mode only, which is eval from its entry to its return; its
\* counters start from 0 in every call, so that two calls in a row on one
\* model and one loader report the same correct and total counts.
C14_CheckIsReadOnly == [] C14_CountsRepeat /\ [][C14_OnlyModeChanges]_vars

C14_Witness ==
    /\ CheckReturned
    /\ Len(hist) = 2
    /\ hist[1].fn = "check_accuracy" /\ hist[2].fn = "check_accuracy"
    /\ hist[1].loader = "loader_test" /\ hist[2].loader = "loader_test"
    /\ hist[2].num_samples = 3 /\ loaders.loader_test.batch_size = 2
    /\ hist[2].num_correct = hist[1].num_correct
    /\ hist[2].num_correct > 0 /\ hist[2].num_correct < 3
    /\ ~models[call.model].training
====
